---- MODULE Spec2Model ----
(***************************************************************************)
(* Model of std/compress/lzss/compress.go: Compress, its two closures      *)
(* (emitBackRef, getRunLength), longestMostRecentBackRef and emit.         *)
(*                                                                         *)
(* Go slices are 0-based; a Go byte d[k] is the sequence element d[k+1].   *)
(* A Go run-time panic is the terminal position pc = "panic" with the      *)
(* panic message in err.  One step of the model is the settings gate, one  *)
(* iteration of the main loop, one iteration of the marker-run search      *)
(* loop, or the final return.                                              *)
(***************************************************************************)
EXTENDS Integers, Sequences, FiniteSets

VARIABLES settings, gas, d, pc, i, out, c, err, runLength,
          minViableBackRefLength, minBackRefAddr, addr, length

vars == <<settings, gas, d, pc, i, out, c, err, runLength,
          minViableBackRefLength, minBackRefAddr, addr, length>>

(***************************************************************************)
(* Bounds of the explored inputs.                                          *)
(***************************************************************************)
MaxLen == 4
MaxRun == 258
LongLen == 259
MaxWidth == 2
MaxOut == 272

ByteRange == 256

(***************************************************************************)
(* Inputs.                                                                 *)
(***************************************************************************)
Alphabet == {0, 1, 2}

ShortInputs == UNION {[1..n -> Alphabet] : n \in 0..MaxLen}

\* Runs of one byte value whose lengths straddle the one-byte length range.
RunInputs == {[k \in 1..n |-> s] : n \in (MaxRun - 3)..MaxRun, s \in {0, 1}}

\* A filler without the byte 0 in which no two adjacent bytes repeat as a
\* pair inside any window of 256 positions: 1, 2, .., 255, 1, 3, 5, ..
Fill(p) == IF p < 255 THEN p + 1 ELSE ((2 * (p - 255)) % 254) + 1

\* Positions (0-based) at which a long input holds the byte 0.
ZeroPlacements == {{257}, {0, 257}, {255, 257}, {256}, {254, 257, 258}}

LongInputs == {[k \in 1..n |-> IF (k - 1) \in P THEN 0 ELSE Fill(k - 1)] :
                  n \in {LongLen}, P \in ZeroPlacements}

Inputs == ShortInputs \cup RunInputs \cup LongInputs

(***************************************************************************)
(* Settings and the gas-cost oracle.                                       *)
(***************************************************************************)
SettingsSet ==
    [ReferenceTo : {"Decompressed", "Compressed"},
     AddressingMode : {"Relative", "Absolute"},
     Log : BOOLEAN,
     Symbol : {0, 1},
     NbBytesAddress : 1..MaxWidth,
     NbBytesLength : 1..MaxWidth]

GasOracles == {[zero |-> 0, nonzero |-> 0], [zero |-> 4, nonzero |-> 16]}

ByteGasCost(b) == IF b = 0 THEN gas.zero ELSE gas.nonzero

Supported(s) ==
    /\ s.ReferenceTo # "Compressed"
    /\ s.AddressingMode # "Absolute"
    /\ ~s.Log

(***************************************************************************)
(* Error and panic messages.                                               *)
(***************************************************************************)
NoError == "nil"
ErrCompressedRef == "compressed ref not implemented"
ErrAbsolute == "absolute addressing not implemented"
ErrLogging == "logging not implemented"
ErrNoBackRef == "no backref found"
ErrNotYetImplemented == "not yet implemented"
PanicDoesNotFit == "n does not fit in nbBytes"
PanicSliceBounds == "slice bounds out of range"
PanicNilMap == "assignment to entry in nil map"

(***************************************************************************)
(* Helpers.                                                                *)
(***************************************************************************)
At(s, k) == s[k + 1]

\* F applied to the value of v, with v evaluated once.
Eager(v, F(_)) == CHOOSE res \in {F(x) : x \in {v}} : TRUE

Max(a, b) == IF a > b THEN a ELSE b

backRefAddressRange == 2 ^ (settings.NbBytesAddress * 8)
backRefLengthRange == 2 ^ (settings.NbBytesLength * 8)

minNontrivialBackRefCost ==
    ByteGasCost(settings.Symbol) + 8
        + (settings.NbBytesAddress + settings.NbBytesLength - 2)

\* emit: the nbBytes low bytes of n, least significant first, are always
\* written; the call panics afterwards when what is left of n is not 0.
emit(n, nbBytes) ==
    [bytes |-> [k \in 1..nbBytes |-> (n \div (ByteRange ^ (k - 1))) % ByteRange],
     fits |-> (n \div (ByteRange ^ nbBytes)) = 0]

\* emitBackRef: two calls of emit; the second is not reached when the
\* first panics.
emitBackRef(offset, len) ==
    LET a == emit(offset - 1, settings.NbBytesAddress)
        l == emit(len - 1, settings.NbBytesLength)
    IN IF a.fits THEN [bytes |-> a.bytes \o l.bytes, fits |-> l.fits]
       ELSE [bytes |-> a.bytes, fits |-> FALSE]

\* getRunLength(i, cap): the least j > i with j >= len(d), j >= cap or
\* d[j] # Symbol, minus i.
getRunLength(pos, cap) ==
    LET cp == IF cap = -1 THEN Len(d) ELSE cap
        stop(j) == ~(j < Len(d) /\ j < cp /\ At(d, j) = settings.Symbol)
        j == CHOOSE x \in (pos + 1)..Max(pos + 1, Len(d)) :
                 stop(x) /\ \A y \in (pos + 1)..(x - 1) : ~stop(y)
    IN j - pos

(***************************************************************************)
(* Compress.                                                               *)
(***************************************************************************)
Init ==
    /\ settings \in SettingsSet
    /\ gas \in GasOracles
    /\ d \in Inputs
    /\ pc = "start"
    /\ i = 0
    /\ out = <<>>
    /\ c = <<>>
    /\ err = NoError
    /\ runLength = 0
    /\ minViableBackRefLength = 0
    /\ minBackRefAddr = 0
    /\ addr = 0
    /\ length = 0

\* The settings gate without its third test.
ValidateErrorNoLogTest(s) ==
    IF s.ReferenceTo = "Compressed" THEN ErrCompressedRef
    ELSE IF s.AddressingMode = "Absolute" THEN ErrAbsolute
    ELSE NoError

\* Lines 24-32: the settings gate, the first unsupported cause in the order
\* tested.
ValidateError(s) ==
    IF s.ReferenceTo = "Compressed" THEN ErrCompressedRef
    ELSE IF s.AddressingMode = "Absolute" THEN ErrAbsolute
    ELSE IF s.Log THEN ErrLogging
    ELSE NoError

\* Lines 20-58: the gate and, when it passes, the entry of the main loop.
Validate ==
    /\ pc = "start"
    /\ IF ValidateError(settings) # NoError
       THEN /\ pc' = "error"
            /\ err' = ValidateError(settings)
            /\ c' = <<>>
       ELSE /\ pc' = "loop"
            /\ UNCHANGED <<err, c>>
    /\ UNCHANGED <<settings, gas, d, i, out, runLength,
                   minViableBackRefLength, minBackRefAddr, addr, length>>

\* Lines 59 and 146: the main loop is left when i reaches len(d).
Return ==
    /\ pc = "loop"
    /\ ~(i < Len(d))
    /\ pc' = "done"
    /\ c' = out
    /\ UNCHANGED <<settings, gas, d, i, out, err, runLength,
                   minViableBackRefLength, minBackRefAddr, addr, length>>

\* Writes the bytes of e to out; the iteration goes on with i advanced by
\* adv when both fields fit, and panics otherwise.
EmitAndAdvance(e, adv) ==
    /\ out' = out \o e.bytes
    /\ IF e.fits
       THEN /\ pc' = "loop"
            /\ i' = i + adv
            /\ UNCHANGED <<err, c>>
       ELSE /\ pc' = "panic"
            /\ err' = PanicDoesNotFit
            /\ UNCHANGED <<i, c>>

\* Lines 61-67 and 104: a marker run that starts at the first byte.
Bootstrap ==
    /\ pc = "loop"
    /\ i < Len(d)
    /\ At(d, i) = settings.Symbol
    /\ i = 0
    /\ \E rl \in {getRunLength(i, i + 1 + backRefLengthRange)} :
          /\ runLength' = rl
          /\ EmitAndAdvance(emitBackRef(1, rl), rl)
    /\ UNCHANGED <<settings, gas, d, minViableBackRefLength, minBackRefAddr,
                   addr, length>>

\* Lines 68-72 and 104: a marker run that starts at 0 < i <= address range.
NearOrigin ==
    /\ pc = "loop"
    /\ i < Len(d)
    /\ At(d, i) = settings.Symbol
    /\ i # 0
    /\ i <= backRefAddressRange
    /\ \E rl \in {getRunLength(i, i + 1 + backRefLengthRange)} :
          LET a == emit(i, settings.NbBytesAddress)
              l == emit(rl - 1, settings.NbBytesLength)
              e == IF a.fits
                   THEN [bytes |-> a.bytes \o l.bytes, fits |-> l.fits]
                   ELSE [bytes |-> a.bytes, fits |-> FALSE]
          IN /\ runLength' = rl
             /\ EmitAndAdvance(e, rl)
    /\ UNCHANGED <<settings, gas, d, minViableBackRefLength, minBackRefAddr,
                   addr, length>>

\* Lines 61-64 and 73-76: a marker run beyond the address range enters the
\* search loop.
EnterSearch ==
    /\ pc = "loop"
    /\ i < Len(d)
    /\ At(d, i) = settings.Symbol
    /\ i # 0
    /\ ~(i <= backRefAddressRange)
    /\ runLength' = getRunLength(i, i + 1 + backRefLengthRange)
    /\ pc' = "search"
    /\ UNCHANGED <<settings, gas, d, i, out, c, err, minViableBackRefLength,
                   minBackRefAddr, addr, length>>

\* Lines 82-93: the body of the backward scan at index k; stop is the break
\* at line 91.
scanStep(k, st) ==
    IF st.stop THEN st
    ELSE LET cur == IF At(d, k) = settings.Symbol
                    THEN st.currentRunLength + 1 ELSE 0
         IN IF cur > st.longestRunLen
            THEN [longestRunLen |-> cur,
                  longestRunStartIndex |-> k,
                  currentRunLength |-> cur,
                  stop |-> (cur = runLength)]
            ELSE [st EXCEPT !.currentRunLength = cur]

\* Lines 81-94: the scan for k = hi down to lo, evaluated by halves.
RECURSIVE scanBack(_, _, _)
scanBack(hi, lo, st) ==
    IF hi < lo THEN st
    ELSE IF hi = lo THEN scanStep(hi, st)
    ELSE Eager((lo + hi) \div 2, LAMBDA mid :
             Eager(scanBack(hi, mid + 1, st), LAMBDA upper :
                 IF upper.stop THEN upper ELSE scanBack(mid, lo, upper)))

\* Lines 76-102: one iteration of `for runLength > 0`, or the return that
\* follows the loop.
SearchIter ==
    /\ pc = "search"
    /\ Len(out) < MaxOut
    /\ IF runLength > 0
       THEN \E st \in {scanBack(i - 1, 0, [longestRunLen |-> 0,
                                            longestRunStartIndex |-> 0,
                                            currentRunLength |-> 0,
                                            stop |-> FALSE])} :
               IF st.currentRunLength = 0
               THEN /\ pc' = "error"
                    /\ err' = ErrNoBackRef
                    /\ c' = <<>>
                    /\ UNCHANGED out
               ELSE \E e \in {emitBackRef(i - st.longestRunStartIndex,
                                           st.longestRunLen)} :
                       /\ out' = out \o e.bytes
                       /\ IF e.fits
                          THEN /\ pc' = "search"
                               /\ UNCHANGED err
                          ELSE /\ pc' = "panic"
                               /\ err' = PanicDoesNotFit
                       /\ UNCHANGED c
       ELSE /\ pc' = "error"
            /\ err' = ErrNotYetImplemented
            /\ c' = <<>>
            /\ UNCHANGED out
    /\ UNCHANGED <<settings, gas, d, i, runLength, minViableBackRefLength,
                   minBackRefAddr, addr, length>>

\* Lines 111-132: the body of the cost loop at candidate length m; stop is
\* one of the two breaks.
minViableStep(pos, m, st) ==
    IF st.stop THEN st
    ELSE IF pos + m > Len(d)
    THEN [st EXCEPT !.minViableBackRefLength = -1, !.stop = TRUE]
    ELSE LET curr == At(d, pos + m - 1)
         IN IF curr = settings.Symbol
            THEN [st EXCEPT !.midRle = TRUE]
            ELSE LET cost == st.noBackRefCost + (IF st.midRle THEN m ELSE 0)
                                 + ByteGasCost(curr)
                 IN [minViableBackRefLength |-> m,
                     noBackRefCost |-> cost,
                     midRle |-> FALSE,
                     stop |-> (cost >= minNontrivialBackRefCost)]

\* Lines 110-133: the cost loop for m = lo up to hi, evaluated by halves.
RECURSIVE minViableLoop(_, _, _, _)
minViableLoop(pos, lo, hi, st) ==
    IF hi < lo THEN st
    ELSE IF hi = lo THEN minViableStep(pos, lo, st)
    ELSE Eager((lo + hi) \div 2, LAMBDA mid :
             Eager(minViableLoop(pos, lo, mid, st), LAMBDA lower :
                 IF lower.stop THEN lower
                 ELSE minViableLoop(pos, mid + 1, hi, lower)))

\* Lines 107-133: the length at which literals cost as much as a backref,
\* or -1 when the input ends first (at m = len(d) - i + 1 at the latest).
minViable(pos) ==
    minViableLoop(pos, 2, Max(2, Len(d) - pos + 1),
                  [minViableBackRefLength |-> 2,
                   noBackRefCost |-> ByteGasCost(At(d, pos)),
                   midRle |-> FALSE,
                   stop |-> FALSE]).minViableBackRefLength

\* Lines 149-185.  The slice at line 152 panics when its upper bound is
\* below its lower bound or beyond the input; remainingOptions is a nil map,
\* so the first store at line 159 panics; with no store the map is empty,
\* the loop at line 164 does not run and line 176 returns (-1, -1).
longestMostRecentBackRef(dd, pos, minAddr, minLen) ==
    IF minLen < 0 \/ pos + minLen > Len(dd)
    THEN [panic |-> PanicSliceBounds, addr |-> 0, length |-> 0]
    ELSE LET remainingOptions ==
                 {j \in 0..(pos - 1) :
                     /\ j >= minAddr
                     /\ ~(j + minLen > Len(dd))
                     /\ \A k \in 0..(minLen - 1) : At(dd, j + k) = At(dd, pos + k)}
         IN IF remainingOptions # {}
            THEN [panic |-> PanicNilMap, addr |-> 0, length |-> 0]
            ELSE [panic |-> "", addr |-> -1, length |-> -1]

\* Lines 105-143: one iteration of the main loop at a byte that is not the
\* marker.
GeneralStep ==
    /\ pc = "loop"
    /\ i < Len(d)
    /\ At(d, i) # settings.Symbol
    /\ \E m \in {minViable(i)}, floor \in {i - backRefAddressRange - 1} :
       \E r \in {longestMostRecentBackRef(d, i, floor, m)} :
          /\ minViableBackRefLength' = m
          /\ minBackRefAddr' = floor
          /\ IF r.panic # ""
             THEN /\ pc' = "panic"
                  /\ err' = r.panic
                  /\ UNCHANGED <<addr, length, out, i, c>>
             ELSE /\ addr' = r.addr
                  /\ length' = r.length
                  /\ IF r.length # -1
                     THEN EmitAndAdvance(
                              emitBackRef(i - r.addr - 1, r.length - 1),
                              r.length)
                     ELSE /\ out' = Append(out, At(d, i))
                          /\ i' = i + 1
                          /\ pc' = "loop"
                          /\ UNCHANGED <<err, c>>
    /\ UNCHANGED <<settings, gas, d, runLength>>

Next ==
    \/ Validate
    \/ Bootstrap
    \/ NearOrigin
    \/ EnterSearch
    \/ SearchIter
    \/ GeneralStep
    \/ Return

Spec == Init /\ [][Next]_vars

(***************************************************************************)
(* longestMostRecentBackRef on its own: every input, position, search      *)
(* floor and minimum length.                                               *)
(***************************************************************************)
MatcherInit ==
    /\ settings \in {s \in SettingsSet : Supported(s) /\ s.NbBytesAddress = 1
                                          /\ s.NbBytesLength = 1}
    /\ gas = [zero |-> 4, nonzero |-> 16]
    /\ d \in ShortInputs
    /\ pc = "call"
    /\ i \in 0..(Len(d) - 1)
    /\ minBackRefAddr \in -1..Len(d)
    /\ minViableBackRefLength \in {-1} \cup 2..(Len(d) - i)
    /\ out = <<>>
    /\ c = <<>>
    /\ err = NoError
    /\ runLength = 0
    /\ addr = 0
    /\ length = 0

CallMatcher ==
    /\ pc = "call"
    /\ LET r == longestMostRecentBackRef(d, i, minBackRefAddr,
                                         minViableBackRefLength)
       IN IF r.panic # ""
          THEN /\ pc' = "panic"
               /\ err' = r.panic
               /\ UNCHANGED <<addr, length>>
          ELSE /\ pc' = "returned"
               /\ addr' = r.addr
               /\ length' = r.length
               /\ UNCHANGED err
    /\ UNCHANGED <<settings, gas, d, i, out, c, runLength,
                   minViableBackRefLength, minBackRefAddr>>

MatcherNext == CallMatcher

MatcherSpec == MatcherInit /\ [][MatcherNext]_vars

(***************************************************************************)
(* The token format and the decoder of the format description, and the     *)
(* matcher as specified: the reference the code is compared with.          *)
(***************************************************************************)
RECURSIVE LittleEndian(_)
LittleEndian(s) ==
    IF s = <<>> THEN 0 ELSE Head(s) + ByteRange * LittleEndian(Tail(s))

\* Copies len bytes one at a time, each from offset bytes back.
CopyBack(o, offset, len) ==
    [q \in 1..(Len(o) + len) |->
        IF q <= Len(o) THEN o[q]
        ELSE o[Len(o) - offset + 1 + ((q - Len(o) - 1) % offset)]]

RECURSIVE DecodeFrom(_, _, _)
DecodeFrom(cc, p, o) ==
    IF p > Len(cc) THEN [ok |-> TRUE, bytes |-> o]
    ELSE IF cc[p] # settings.Symbol
    THEN DecodeFrom(cc, p + 1, Append(o, cc[p]))
    ELSE IF p + settings.NbBytesAddress + settings.NbBytesLength > Len(cc)
    THEN [ok |-> FALSE, bytes |-> o]
    ELSE LET rawOffset ==
                 LittleEndian(SubSeq(cc, p + 1, p + settings.NbBytesAddress))
             rawLength ==
                 LittleEndian(SubSeq(cc, p + settings.NbBytesAddress + 1,
                     p + settings.NbBytesAddress + settings.NbBytesLength))
         IN IF rawOffset + 1 > Len(o)
            THEN [ok |-> FALSE, bytes |-> o]
            ELSE DecodeFrom(cc,
                     p + 1 + settings.NbBytesAddress + settings.NbBytesLength,
                     CopyBack(o, rawOffset + 1, rawLength + 1))

Decode(cc) == DecodeFrom(cc, 1, <<>>)

\* Walks cc token by token: a literal is one byte, a backreference is
\* 1 + NbBytesAddress + NbBytesLength bytes; decoded is the number of bytes
\* the tokens stand for.
RECURSIVE WalkFrom(_, _, _)
WalkFrom(cc, p, n) ==
    IF p > Len(cc) THEN [ok |-> TRUE, decoded |-> n]
    ELSE IF cc[p] # settings.Symbol THEN WalkFrom(cc, p + 1, n + 1)
    ELSE IF p + settings.NbBytesAddress + settings.NbBytesLength > Len(cc)
    THEN [ok |-> FALSE, decoded |-> n]
    ELSE WalkFrom(cc, p + 1 + settings.NbBytesAddress + settings.NbBytesLength,
             n + 1 + LittleEndian(SubSeq(cc, p + settings.NbBytesAddress + 1,
                     p + settings.NbBytesAddress + settings.NbBytesLength)))

\* A backreference token: the marker, offset - 1 and length - 1.
BackRefToken(offset, len) ==
    <<settings.Symbol>> \o emit(offset - 1, settings.NbBytesAddress).bytes
                        \o emit(len - 1, settings.NbBytesLength).bytes

\* The number of bytes on which dd agrees from j and from pos, up to the end
\* of dd.
MatchLen(dd, j, pos) ==
    CHOOSE L \in 0..(Len(dd) - pos) :
        /\ \A k \in 0..(L - 1) : At(dd, j + k) = At(dd, pos + k)
        /\ L = Len(dd) - pos \/ At(dd, j + L) # At(dd, pos + L)

\* The longest match of at least minLen bytes that starts in
\* [max(0, floor), pos), the most recent start among the longest.
BestMatch(dd, pos, floor, minLen) ==
    LET starts == {j \in Max(0, floor)..(pos - 1) : MatchLen(dd, j, pos) >= minLen}
        best == CHOOSE L \in {MatchLen(dd, j, pos) : j \in starts} :
                    \A j \in starts : MatchLen(dd, j, pos) <= L
        start == CHOOSE j \in starts :
                     /\ MatchLen(dd, j, pos) = best
                     /\ \A j2 \in starts : MatchLen(dd, j2, pos) = best => j2 <= j
    IN IF starts = {} THEN [found |-> FALSE, addr |-> -1, length |-> -1]
       ELSE [found |-> TRUE, addr |-> start, length |-> best]

IsMarkerRun(dd) == Len(dd) >= 1 /\ \A k \in 1..Len(dd) : dd[k] = settings.Symbol

HasNoMarker(dd) == \A k \in 1..Len(dd) : dd[k] # settings.Symbol

Stopped == pc \in {"done", "error", "panic"}

(***************************************************************************)
(* Claims.                                                                 *)
(***************************************************************************)

\* C1: round trip.  Whenever Compress returns without error under supported
\* settings, decoding the returned bytes succeeds and yields exactly d.
C1_RoundTrip ==
    (pc = "done" /\ Supported(settings)) =>
        (Decode(c).ok /\ Decode(c).bytes = d)

\* C2: no bare marker literal.  Whenever Compress returns without error, the
\* token walk of the returned bytes ends exactly at their end (so a marker
\* byte only ever opens a backreference token) and the tokens stand for
\* len(d) bytes.
C2_NoBareMarker ==
    pc = "done" =>
        (WalkFrom(c, 1, 0).ok /\ WalkFrom(c, 1, 0).decoded = Len(d))

\* C3: general backreference emission.  At a position i whose byte is not the
\* marker and at which a match (j, L) of at least the minimum viable length
\* exists in the window, the iteration appends the token (marker, (i-j)-1,
\* L-1) to the output and advances i by exactly L.
C3_BackRefEmission ==
    [][(/\ pc = "loop"
        /\ i < Len(d)
        /\ At(d, i) # settings.Symbol
        /\ minViable(i) >= 2
        /\ BestMatch(d, i, i - backRefAddressRange - 1, minViable(i)).found)
       => LET b == BestMatch(d, i, i - backRefAddressRange - 1, minViable(i))
          IN /\ out' = out \o BackRefToken(i - b.addr, b.length)
             /\ i' = i + b.length
             /\ pc' = "loop"]_vars

\* C4: unsupported settings rejection.  Under settings with ReferenceTo =
\* Compressed, AddressingMode = Absolute or Log = true, the call has, as soon
\* as it has taken a step, returned a nil output and the error of the cause
\* (a different error for each cause), with no byte of d consumed and no
\* output byte produced.
C4_UnsupportedRejected ==
    (~Supported(settings) /\ pc # "start") =>
        /\ pc = "error"
        /\ c = <<>>
        /\ out = <<>>
        /\ i = 0
        /\ runLength = 0
        /\ err # NoError
        /\ settings.ReferenceTo = "Compressed" => err = ErrCompressedRef
        /\ (settings.ReferenceTo # "Compressed"
              /\ settings.AddressingMode = "Absolute") => err = ErrAbsolute
        /\ (settings.ReferenceTo # "Compressed"
              /\ settings.AddressingMode # "Absolute"
              /\ settings.Log) => err = ErrLogging
        /\ err = ErrCompressedRef => settings.ReferenceTo = "Compressed"
        /\ err = ErrAbsolute => settings.AddressingMode = "Absolute"
        /\ err = ErrLogging => settings.Log

\* A call on a nonempty input whose only unsupported setting is Log has
\* returned the logging error.
C4_Witness ==
    /\ pc = "error"
    /\ err = ErrLogging
    /\ settings.Log
    /\ settings.ReferenceTo # "Compressed"
    /\ settings.AddressingMode # "Absolute"
    /\ Len(d) > 0

\* C5: bootstrap correctness.  On an input of k marker bytes, 1 <= k <=
\* length range, the call ends by returning exactly one backreference token
\* (marker, address field 0, length field k - 1), and that token decodes to
\* the input.
C5_Bootstrap ==
    (/\ Supported(settings)
     /\ IsMarkerRun(d)
     /\ Len(d) <= backRefLengthRange
     /\ Stopped)
    => /\ pc = "done"
       /\ c = BackRefToken(1, Len(d))
       /\ Decode(c).ok
       /\ Decode(c).bytes = d

\* C6: matcher result.  For a minimum length m with 2 <= m <= len(d) - i the
\* matcher returns (-1, -1) exactly when no start in [max(0, floor), i)
\* matches on m bytes, and otherwise the greatest match length together with
\* the most recent start that attains it.
C6_MatcherResult ==
    (/\ pc \in {"returned", "panic"}
     /\ 2 <= minViableBackRefLength
     /\ minViableBackRefLength <= Len(d) - i)
    => /\ pc = "returned"
       /\ addr = BestMatch(d, i, minBackRefAddr, minViableBackRefLength).addr
       /\ length = BestMatch(d, i, minBackRefAddr, minViableBackRefLength).length

\* C7: marker run with nothing to reference.  In the search loop (a marker at
\* a position beyond the address range), when the addressable window
\* d[i - addressRange .. i) holds no marker byte, the step returns the "no
\* backref found" error with a nil output.
C7_NoBackRefError ==
    [][(/\ pc = "search"
        /\ \A k \in Max(0, i - backRefAddressRange)..(i - 1) :
               At(d, k) # settings.Symbol)
       => (pc' = "error" /\ err' = ErrNoBackRef /\ c' = <<>>)]_vars

\* C8: cost-driven fallback.  With an oracle that is 0 for every byte and an
\* input without marker bytes, every position is emitted as a literal: the
\* call never fails, the output so far is the input consumed so far, and the
\* returned bytes equal the input.
C8_CostFallback ==
    (/\ gas = [zero |-> 0, nonzero |-> 0]
     /\ Supported(settings)
     /\ HasNoMarker(d)
     /\ pc # "start")
    => /\ pc \in {"loop", "done"}
       /\ out = SubSeq(d, 1, i)
       /\ pc = "done" => c = d

\* C9: termination.  Every iteration of the main loop strictly increases i,
\* and the search loop `for runLength > 0` always exits: an iteration that
\* stays in that loop changes what the loop reads (i and runLength; d and the
\* settings never change).  An iteration that leaves them as they were is
\* repeated for ever, since the loop body is a function of them alone.
C9_Termination ==
    [][/\ (pc = "loop" /\ pc' = "loop") => i' > i
       /\ (pc = "search" /\ pc' = "search") =>
              <<i', runLength'>> # <<i, runLength>>]_vars

\* C10: every emitted field fits its width: the "n does not fit in nbBytes"
\* panic of emit is unreachable.
C10_FieldsFit == ~(pc = "panic" /\ err = PanicDoesNotFit)
====
